---- MODULE Spec2Model ----
(***************************************************************************)
(* classroom-poller: the poller's OAuth authorization (stored token, local *)
(* loopback flow, device flow) followed by its course listing, and the     *)
(* day-bucketed build-data pipeline (fetch, normalise, bucket, sort,       *)
(* write).  Two programs: SpecAuth (and SpecDevice, SpecAuth with the      *)
(* fairness of the polling loop) and SpecPipe (and SpecTwice, two runs).   *)
(* SpecDates runs the pipeline's two date conversions on their own.        *)
(*                                                                         *)
(* Units.  The device-flow clock `now` is in milliseconds, as Date.now().  *)
(* Calendar instants of the pipeline are in minutes since the Unix epoch   *)
(* (a JavaScript Date holds milliseconds; every instant of the model is a  *)
(* whole minute, so 60000 ms is 1).                                        *)
(***************************************************************************)
EXTENDS Integers, Sequences, FiniteSets, TLC

VARIABLES
    \* ---- poller (src/unnamed/part_001) ----
    env,          \* process.env: GOOGLE_CLIENT_ID, GOOGLE_CLIENT_SECRET, GOOGLE_AUTH_METHOD
    tokenFile,    \* content of the file at tokenPath
    tokenFile0,   \* its content when the process started (history)
    tokenWrites,  \* number of completed fs.writeFile(tokenPath, ...) calls (history)
    pc,           \* position of main()
    exitStatus,   \* <<>> while running, <<0>> (main resolved), <<1>> (process.exit(1))
    tokens,       \* the tokens main() holds: stored ones or r.tokens
    flow,         \* [kind, state] of the interactive flow of this run
    flowsRun,     \* number of interactive flows started (history)
    server,       \* the loopback http.Server: "none", "listening", "closed"
    conns,        \* connections accepted by the listener and still open
    served,       \* those of them that answered their requests and are idle
    stuck,        \* those of them with a request that got no answer (handler threw)
    codePromise,  \* [state, code] of codePromise
    nReq,         \* requests handled by the listener (history)
    lastReq,      \* the request handled last
    lastStatus,   \* the status written for it (NoStatus: nothing written)
    firstCode,    \* code of the first callback request that carried one (history)
    sawNoCode,    \* a callback request without a code was handled (history)
    exchanged,    \* codes passed to oAuth2Client.getToken, in order
    net,          \* outgoing requests issued so far, counted by kind
    now,          \* Date.now(), ms since the process started
    intervalMs,   \* startDeviceAuth's intervalMs
    expiresAt,    \* startDeviceAuth's expiresAt
    lastPollAt,   \* Date.now() when the last poll of the token endpoint was sent
    lastPoll,     \* the last response of the token endpoint
    device,       \* startDeviceAuth's device: the device-code response
    timer,        \* the delay passed to the last setTimeout of the polling loop
    nCourses,     \* courses.length
    courseIdx,    \* index of the course being listed
    \* ---- build-data pipeline (src/README.md, lines 27-203) ----
    remote,       \* what the Classroom API answers, the same at every call
    clock,        \* new Date(), minutes since the epoch
    ticks,        \* minutes the clock has advanced during this run
    run,          \* 1 or 2: the pipeline is run twice against the same remote
    dayBuckets,   \* Map dayKey -> Map courseName -> items[], in insertion order
    days,         \* the sorted day keys (line 162)
    dayIdx,       \* index in days of the day file written next
    files,        \* docs/days/<dayKey>.json: set of [path, content]
    manifest,     \* content of docs/days/index.json, <<>> when there is none
    files1,       \* files when run 1 ended (history)
    manifest1,    \* manifest when run 1 ended (history)
    written,      \* the day documents written by this run, in order (history)
    manifestWrites, \* writes of index.json by this run (history)
    attempts,     \* the per-course fetches issued by this run (history)
    failCause,    \* what made the run fail, "" while it has not
    \* ---- the date conversions on their own (src/README.md, lines 48-70) ----
    dueDateArg,   \* googleDueToDate's dueDate: <<>> or <<[year, month, day]>>
    dueTimeArg,   \* googleDueToDate's dueTime: <<>> or <<[hours, minutes]>>
    dueResult,    \* what googleDueToDate returned: <<>> (null) or <<instant>>
    dueKey        \* kstDayKey of that instant, <<>> before it is taken

authVars == <<env, tokenFile, tokenFile0, tokenWrites, pc, exitStatus, tokens,
              flow, flowsRun, server, conns, served, stuck, codePromise, nReq, lastReq,
              lastStatus, firstCode, sawNoCode, exchanged, net, now,
              intervalMs,
              expiresAt, lastPollAt, lastPoll, device, timer, nCourses,
              courseIdx>>

pipeVars == <<remote, clock, ticks, run, dayBuckets, days, dayIdx, files, manifest,
              files1, manifest1, written, manifestWrites, attempts, failCause,
              dueDateArg, dueTimeArg, dueResult, dueKey>>

dateVars == <<dueDateArg, dueTimeArg, dueResult, dueKey>>

vars == <<authVars, pipeVars>>

----------------------------------------------------------------------------
(* Bounds *)
MaxRequests == 3
MaxConns == 2
MaxCourses == 2
MaxLatency == 1
MaxTicks == 1
LatencyStepMs == 2500

(* Program constants *)
DefaultInterval == 5
DefaultExpiresIn == 600
TzOffsetMinutes == 9 * 60

----------------------------------------------------------------------------
(* JavaScript values *)
NoRemote == [listOk |-> FALSE, courses |-> <<>>, courseWork |-> <<>>,
             announcements |-> <<>>]
Absent == "<absent>"
Truthy(v) == v \notin {Absent, ""}
OrElse(v, d) == IF Truthy(v) THEN v ELSE d

Opt(S) == {<<>>} \cup {<<x>> : x \in S}
NumOr(o, d) == IF o = <<>> \/ o[1] = 0 THEN d ELSE o[1]

(* String.prototype.toLowerCase on the values GOOGLE_AUTH_METHOD takes here *)
toLowerCase(s) ==
    CASE s = "DEVICE" -> "device"
      [] s = "Device" -> "device"
      [] s = "LOCAL"  -> "local"
      [] OTHER        -> s

----------------------------------------------------------------------------
(* The token file *)
NoFile      == [kind |-> "absent",  access_token |-> Absent, refresh_token |-> Absent]
GarbageFile == [kind |-> "garbage", access_token |-> Absent, refresh_token |-> Absent]
NullFile    == [kind |-> "null",    access_token |-> Absent, refresh_token |-> Absent]
ObjectFile(t) == [kind |-> "object", access_token |-> t.access_token,
                  refresh_token |-> t.refresh_token]

NoTokens == [access_token |-> Absent, refresh_token |-> Absent]
StoredTokens == [access_token : {Absent, "", "at-old"},
                 refresh_token : {Absent, "rt-old"}]
TokenFiles == {NoFile, GarbageFile, NullFile} \cup {ObjectFile(t) : t \in StoredTokens}

(* main, lines 153-156: JSON.parse(await fs.readFile(...)) inside try/catch *)
readTokens(f) ==
    IF f.kind = "object"
    THEN [access_token |-> f.access_token, refresh_token |-> f.refresh_token]
    ELSE NoTokens

usableMutantRefreshOnly(t) == Truthy(t.refresh_token)

(* main, line 159 *)
usable(t) == Truthy(t.refresh_token) \/ Truthy(t.access_token)

(* main, line 165 *)
useDevice(e) == toLowerCase(OrElse(e.GOOGLE_AUTH_METHOD, "")) = "device"

Codes == {"c1", "c2"}
TokensForCode(c) == [access_token |-> "at-" \o c, refresh_token |-> "rt-" \o c]
DeviceTokens == [access_token |-> "at-device", refresh_token |-> "rt-device"]

----------------------------------------------------------------------------
(* The loopback listener, startLocalAuth lines 50-71 *)
NoCode == Absent
NoStatus == <<>>
Requests ==
    [malformed : {FALSE}, pathname : {"/oauth2callback", "/", "/favicon.ico"},
     code : {NoCode, ""} \cup Codes]
    \cup {[malformed |-> TRUE, pathname |-> "", code |-> NoCode]}
NoRequest == [malformed |-> FALSE, pathname |-> "", code |-> NoCode]

CallbackWithCode(r) ==
    ~r.malformed /\ r.pathname = "/oauth2callback" /\ r.code \in Codes
CallbackWithoutCode(r) ==
    ~r.malformed /\ r.pathname = "/oauth2callback" /\ r.code \notin Codes

(* what the handler does with one request: the status it writes, whether it *)
(* closes the server, and how it settles codePromise                        *)
handler(r) ==
    IF r.malformed THEN [status |-> NoStatus, close |-> FALSE, settle |-> "reject"]
    ELSE IF r.pathname # "/oauth2callback"
         THEN [status |-> <<404>>, close |-> FALSE, settle |-> "none"]
    ELSE IF ~Truthy(r.code) THEN [status |-> <<400>>, close |-> FALSE, settle |-> "none"]
    ELSE [status |-> <<200>>, close |-> TRUE, settle |-> "resolve"]

Pending == [state |-> "pending", code |-> NoCode]

settleMutantLastWins(p, how, c) ==
    IF how = "none" THEN p
    ELSE IF how = "resolve" THEN [state |-> "resolved", code |-> c]
    ELSE [state |-> "rejected", code |-> NoCode]

(* a promise settles once: resolve and reject after that are no-ops *)
settle(p, how, c) ==
    IF p.state # "pending" \/ how = "none" THEN p
    ELSE IF how = "resolve" THEN [state |-> "resolved", code |-> c]
    ELSE [state |-> "rejected", code |-> NoCode]

----------------------------------------------------------------------------
(* The poller: main of src/unnamed/part_001 *)
Envs == [GOOGLE_CLIENT_ID : {Absent, "id"},
         GOOGLE_CLIENT_SECRET : {"", "secret"},
         GOOGLE_AUTH_METHOD : {Absent, "local", "device", "Device"}]

NoNet == [device_code |-> 0, token_poll |-> 0, code_exchange |-> 0,
          courses |-> 0, coursework |-> 0, announcements |-> 0]
Sent(kind) == [net EXCEPT ![kind] = @ + 1]
NoDevice == [interval |-> <<>>, expires_in |-> <<>>]
NoFlow == [kind |-> "none", state |-> "Idle"]
Running == exitStatus = <<>>

(* main's continuation after `await codePromise` (line 86) is queued as soon *)
(* as codePromise is settled, and a rejection of codePromise that nothing    *)
(* awaits yet (main is still at `await open(authUrl)`, line 81) is reported  *)
(* as unhandled once the handlers of the turn have returned: no connection  *)
(* is accepted or closed and open() does not settle before that.  Requests   *)
(* that arrived in the same segment are still handled before it.             *)
ContinuationQueued ==
    \/ pc = "local_await" /\ codePromise.state # "pending"
    \/ pc = "local_open" /\ codePromise.state = "rejected"

(* main has returned: the process ends with status 0 once nothing keeps the *)
(* event loop alive, that is once no connection of the listener is open     *)
exitWhenIdle(open) == IF open = 0 THEN <<0>> ELSE <<>>

InitAuth ==
    /\ env \in Envs
    /\ tokenFile \in TokenFiles
    /\ tokenFile0 = tokenFile
    /\ tokenWrites = 0
    /\ pc = "start"
    /\ exitStatus = <<>>
    /\ tokens = NoTokens
    /\ flow = NoFlow
    /\ flowsRun = 0
    /\ server = "none"
    /\ conns = 0 /\ served = 0 /\ stuck = 0
    /\ codePromise = Pending
    /\ nReq = 0
    /\ lastReq = NoRequest
    /\ lastStatus = NoStatus
    /\ firstCode = NoCode
    /\ sawNoCode = FALSE
    /\ exchanged = <<>>
    /\ net = NoNet
    /\ now = 0
    /\ intervalMs = 0
    /\ expiresAt = 0
    /\ lastPollAt = 0
    /\ lastPoll = "none"
    /\ device = NoDevice
    /\ timer = 0
    /\ nCourses = 0
    /\ courseIdx = 0
    /\ remote = NoRemote
    /\ clock = 0
    /\ ticks = 0
    /\ run = 1
    /\ dayBuckets = <<>>
    /\ days = <<>>
    /\ dayIdx = 0
    /\ files = {}
    /\ manifest = <<>>
    /\ files1 = {}
    /\ manifest1 = <<>>
    /\ written = <<>>
    /\ manifestWrites = 0
    /\ attempts = <<>>
    /\ failCause = ""
    /\ dueDateArg = <<>> /\ dueTimeArg = <<>> /\ dueResult = <<>> /\ dueKey = <<>>

localVars == <<server, conns, served, stuck, codePromise, nReq, lastReq, lastStatus, firstCode,
               sawNoCode>>
deviceVars == <<now, intervalMs, expiresAt, lastPollAt, lastPoll, device, timer>>
fileVars == <<tokenFile, tokenWrites>>
courseVars == <<nCourses, courseIdx>>

DieMutantExitZero ==
    /\ pc' = "done"
    /\ exitStatus' = <<0>>

(* main().catch: console.error, process.exit(1) *)
Die ==
    /\ pc' = "failed"
    /\ exitStatus' = <<1>>

(* lines 19-23, 148-149 *)
mustGetEnv(name) == Truthy(env[name])

ConfigOk ==
    /\ pc = "start"
    /\ mustGetEnv("GOOGLE_CLIENT_ID") /\ mustGetEnv("GOOGLE_CLIENT_SECRET")
    /\ pc' = "readToken"
    /\ UNCHANGED <<pipeVars, env, tokenFile0, exitStatus, tokens, flow, flowsRun, exchanged, net>>
    /\ UNCHANGED <<localVars, deviceVars, fileVars, courseVars>>

ConfigMissing ==
    /\ pc = "start"
    /\ ~(mustGetEnv("GOOGLE_CLIENT_ID") /\ mustGetEnv("GOOGLE_CLIENT_SECRET"))
    /\ Die
    /\ UNCHANGED <<pipeVars, env, tokenFile0, tokens, flow, flowsRun, exchanged, net>>
    /\ UNCHANGED <<localVars, deviceVars, fileVars, courseVars>>

(* lines 153-163, 174-176: a stored credential is adopted as it is, and   *)
(* courses.list is called                                                  *)
AdoptStored ==
    /\ pc = "readToken"
    /\ usable(readTokens(tokenFile))
    /\ tokens' = readTokens(tokenFile)
    /\ net' = Sent("courses")
    /\ pc' = "courses"
    /\ UNCHANGED <<pipeVars, env, tokenFile0, exitStatus, flow, flowsRun, exchanged>>
    /\ UNCHANGED <<localVars, deviceVars, fileVars, courseVars>>

(* lines 164-168, 39-76: startLocalAuth creates the server and listens *)
BeginLocal ==
    /\ pc = "readToken"
    /\ ~usable(readTokens(tokenFile))
    /\ ~useDevice(env)
    /\ server' = "listening"
    /\ flow' = [kind |-> "local", state |-> "AwaitingRedirect"]
    /\ flowsRun' = flowsRun + 1
    /\ pc' = "local_open"
    /\ UNCHANGED <<pipeVars, env, tokenFile0, exitStatus, tokens, exchanged, net>>
    /\ UNCHANGED <<conns, served, stuck, codePromise, nReq, lastReq, lastStatus, firstCode,
                   sawNoCode>>
    /\ UNCHANGED <<deviceVars, fileVars, courseVars>>

(* lines 78-84: await open(authUrl), its failure swallowed *)
OpenBrowser ==
    /\ pc = "local_open"
    /\ ~ContinuationQueued
    /\ pc' = "local_await"
    /\ UNCHANGED <<pipeVars, env, tokenFile0, exitStatus, tokens, flow, flowsRun, exchanged, net>>
    /\ UNCHANGED <<localVars, deviceVars, fileVars, courseVars>>

(* the connections of the listener by what they did so far: "fresh" sent  *)
(* no request, "served" answered every request and is idle, "stuck" holds  *)
(* a request the handler threw on, which never gets its answer             *)
ConnKinds ==
    {k \in {"fresh", "served", "stuck"} :
        CASE k = "served" -> served > 0
          [] k = "stuck"  -> stuck > 0
          [] OTHER        -> conns - served - stuck > 0}

Count(k, kind) == IF k = kind THEN 1 ELSE 0

(* a client connects to 127.0.0.1:53682 while the server listens *)
Connect ==
    /\ Running /\ ~ContinuationQueued
    /\ server = "listening"
    /\ conns < MaxConns
    /\ conns' = conns + 1
    /\ UNCHANGED <<pipeVars, env, tokenFile0, pc, exitStatus, tokens, flow, flowsRun, exchanged, net>>
    /\ UNCHANGED <<server, served, stuck, codePromise, nReq, lastReq, lastStatus, firstCode,
                   sawNoCode>>
    /\ UNCHANGED <<deviceVars, fileVars, courseVars>>

(* lines 50-71: the request handler runs to completion for one request of  *)
(* one open connection.  A connection accepted before server.close() still *)
(* delivers its requests, also after main has returned: the process lives  *)
(* while it is open.  server.close() (line 66) ends at once the other      *)
(* connections that are idle after an answered request; the connection of  *)
(* the request, those that sent nothing and those still owed an answer     *)
(* stay open.                                                              *)
HandleRequest(r) ==
    /\ Running
    /\ conns > 0
    /\ nReq < MaxRequests
    /\ LET h == handler(r) IN
        /\ lastReq' = r
        /\ lastStatus' = h.status
        /\ server' = IF h.close THEN "closed" ELSE server
        /\ codePromise' = settle(codePromise, h.settle, r.code)
        /\ \E k \in ConnKinds :
              LET others == served - Count(k, "served")
                  after  == IF r.malformed \/ k = "stuck" THEN "stuck" ELSE "served"
              IN IF h.close
                 THEN /\ conns' = conns - others
                      /\ served' = Count(after, "served")
                      /\ stuck' = stuck
                 ELSE /\ conns' = conns
                      /\ served' = others + Count(after, "served")
                      /\ stuck' = stuck - Count(k, "stuck") + Count(after, "stuck")
    /\ firstCode' = IF firstCode = NoCode /\ CallbackWithCode(r)
                    THEN r.code ELSE firstCode
    /\ sawNoCode' = (sawNoCode \/ CallbackWithoutCode(r))
    /\ nReq' = nReq + 1
    /\ UNCHANGED <<pipeVars, env, tokenFile0, pc, exitStatus, tokens, flow, flowsRun, exchanged, net>>
    /\ UNCHANGED <<deviceVars, fileVars, courseVars>>

(* a client closes its connection, or the connection's keep-alive timeout  *)
(* passes; the last one to go after main has returned ends the process     *)
Disconnect ==
    /\ Running /\ ~ContinuationQueued
    /\ conns > 0
    /\ conns' = conns - 1
    /\ \E k \in ConnKinds :
          /\ served' = served - Count(k, "served")
          /\ stuck' = stuck - Count(k, "stuck")
    /\ exitStatus' = IF pc = "done" THEN exitWhenIdle(conns') ELSE exitStatus
    /\ UNCHANGED <<pipeVars, env, tokenFile0, pc, tokens, flow, flowsRun, exchanged, net>>
    /\ UNCHANGED <<server, codePromise, nReq, lastReq, lastStatus, firstCode, sawNoCode>>
    /\ UNCHANGED <<deviceVars, fileVars, courseVars>>

(* lines 86-88: codePromise resolved, getToken(code) is called *)
AwaitCodeResolved ==
    /\ pc = "local_await"
    /\ codePromise.state = "resolved"
    /\ exchanged' = Append(exchanged, codePromise.code)
    /\ net' = Sent("code_exchange")
    /\ flow' = [flow EXCEPT !.state = "Exchanging"]
    /\ pc' = "local_exchange"
    /\ UNCHANGED <<pipeVars, env, tokenFile0, exitStatus, tokens, flowsRun>>
    /\ UNCHANGED <<localVars, deviceVars, fileVars, courseVars>>

(* line 86: codePromise rejected, the rejection leaves main and reaches    *)
(* main().catch; rejected while main is still at line 81, it is an         *)
(* unhandled rejection, which ends the process with status 1 as well       *)
AwaitCodeRejected ==
    /\ pc \in {"local_open", "local_await"}
    /\ codePromise.state = "rejected"
    /\ flow' = [flow EXCEPT !.state = "Failed"]
    /\ Die
    /\ UNCHANGED <<pipeVars, env, tokenFile0, tokens, flowsRun, exchanged, net>>
    /\ UNCHANGED <<localVars, deviceVars, fileVars, courseVars>>

(* lines 88-90: the token endpoint answers the code exchange *)
ExchangeOk ==
    /\ pc = "local_exchange"
    /\ tokens' = TokensForCode(exchanged[Len(exchanged)])
    /\ flow' = [flow EXCEPT !.state = "Done"]
    /\ pc' = "save"
    /\ UNCHANGED <<pipeVars, env, tokenFile0, exitStatus, flowsRun, exchanged, net>>
    /\ UNCHANGED <<localVars, deviceVars, fileVars, courseVars>>

ExchangeRejected ==
    /\ pc = "local_exchange"
    /\ flow' = [flow EXCEPT !.state = "Failed"]
    /\ Die
    /\ UNCHANGED <<pipeVars, env, tokenFile0, tokens, flowsRun, exchanged, net>>
    /\ UNCHANGED <<localVars, deviceVars, fileVars, courseVars>>

(* line 73: listen fails (port in use): the 'error' event has no listener, *)
(* the process dies of the uncaught exception                              *)
ListenError ==
    /\ pc \in {"local_open", "local_await"}
    /\ server = "listening" /\ conns = 0 /\ nReq = 0
    /\ server' = "none"
    /\ flow' = [flow EXCEPT !.state = "Failed"]
    /\ Die
    /\ UNCHANGED <<pipeVars, env, tokenFile0, tokens, flowsRun, exchanged, net>>
    /\ UNCHANGED <<conns, served, stuck, codePromise, nReq, lastReq, lastStatus, firstCode,
                   sawNoCode>>
    /\ UNCHANGED <<deviceVars, fileVars, courseVars>>

----------------------------------------------------------------------------
(* startDeviceAuth, lines 93-145 *)
Latencies == {l * LatencyStepMs : l \in 0..MaxLatency}

DeviceResponses ==
    { [interval |-> <<>>,    expires_in |-> <<12>>],
      [interval |-> <<0>>,   expires_in |-> <<7>>],
      [interval |-> <<3>>,   expires_in |-> <<3>>],
      [interval |-> <<200>>, expires_in |-> <<>>],
      [interval |-> <<250>>, expires_in |-> <<0>>] }

PollResponses == {"ok", "authorization_pending", "slow_down", "access_denied",
                  "expired_token", "network_error"}

(* line 140 *)
retryMutantNoSlowDown(r) == r = "authorization_pending"

retry(r) == r = "authorization_pending" \/ r = "slow_down"

deviceIntervalMutantIgnoresServer(dev) == DefaultInterval * 1000

(* lines 117-118 *)
deviceInterval(dev) == NumOr(dev.interval, DefaultInterval) * 1000
deviceExpiry(dev, t) == t + NumOr(dev.expires_in, DefaultExpiresIn) * 1000

loopGuardMutantNoExpiry(t, e) == TRUE

(* line 120 *)
loopGuard(t, e) == t < e

(* lines 164-168, 96-105: the device-code request is sent *)
BeginDevice ==
    /\ pc = "readToken"
    /\ ~usable(readTokens(tokenFile))
    /\ useDevice(env)
    /\ flow' = [kind |-> "device", state |-> "DeviceCodeRequested"]
    /\ flowsRun' = flowsRun + 1
    /\ net' = Sent("device_code")
    /\ pc' = "device_code"
    /\ UNCHANGED <<pipeVars, env, tokenFile0, exitStatus, tokens, exchanged>>
    /\ UNCHANGED <<localVars, deviceVars, fileVars, courseVars>>

(* lines 107-118 *)
DeviceCodeOk(dev, d) ==
    /\ pc = "device_code"
    /\ now' = now + d
    /\ device' = dev
    /\ intervalMs' = deviceInterval(dev)
    /\ expiresAt' = deviceExpiry(dev, now')
    /\ flow' = [flow EXCEPT !.state = "Polling"]
    /\ pc' = "device_loop"
    /\ UNCHANGED <<pipeVars, env, tokenFile0, exitStatus, tokens, flowsRun, exchanged, net>>
    /\ UNCHANGED <<lastPollAt, lastPoll, timer, localVars, fileVars, courseVars>>

(* lines 108-110 *)
DeviceCodeRejected ==
    /\ pc = "device_code"
    /\ flow' = [flow EXCEPT !.state = "Failed"]
    /\ Die
    /\ UNCHANGED <<pipeVars, env, tokenFile0, tokens, flowsRun, exchanged, net>>
    /\ UNCHANGED <<localVars, deviceVars, fileVars, courseVars>>

(* lines 120-132: the guard holds, the timer runs, the poll is sent *)
DeviceWaitAndPoll(d) ==
    /\ pc = "device_loop"
    /\ loopGuard(now, expiresAt)
    /\ timer' = intervalMs
    /\ now' = now + timer' + d
    /\ lastPollAt' = now'
    /\ net' = Sent("token_poll")
    /\ pc' = "device_poll"
    /\ UNCHANGED <<pipeVars, env, tokenFile0, exitStatus, tokens, flow, flowsRun, exchanged>>
    /\ UNCHANGED <<intervalMs, expiresAt, lastPoll, device, localVars, fileVars, courseVars>>

(* lines 120, 144 *)
DeviceTimedOut ==
    /\ pc = "device_loop"
    /\ ~loopGuard(now, expiresAt)
    /\ flow' = [flow EXCEPT !.state = "TimedOut"]
    /\ Die
    /\ UNCHANGED <<pipeVars, env, tokenFile0, tokens, flowsRun, exchanged, net>>
    /\ UNCHANGED <<localVars, deviceVars, fileVars, courseVars>>

(* lines 134-141 *)
DevicePollResponse(r, d) ==
    /\ pc = "device_poll"
    /\ now' = now + d
    /\ lastPoll' = r
    /\ IF r = "ok"
       THEN /\ tokens' = DeviceTokens
            /\ flow' = [flow EXCEPT !.state = "Done"]
            /\ pc' = "save"
            /\ UNCHANGED exitStatus
       ELSE IF retry(r)
       THEN /\ pc' = "device_loop"
            /\ UNCHANGED <<tokens, flow, exitStatus>>
       ELSE /\ flow' = [flow EXCEPT !.state = "Failed"]
            /\ Die
            /\ UNCHANGED tokens
    /\ UNCHANGED <<pipeVars, env, tokenFile0, flowsRun, exchanged, net>>
    /\ UNCHANGED <<intervalMs, expiresAt, lastPollAt, device, timer, localVars, fileVars,
                   courseVars>>

----------------------------------------------------------------------------
(* main, lines 169-176: the fresh tokens are written to tokenPath, then    *)
(* courses.list is called                                                  *)
saveMutantSkip(t, f) == f

save(t, f) == ObjectFile(t)

SaveTokensOk ==
    /\ pc = "save"
    /\ tokenFile' = save(tokens, tokenFile)
    /\ tokenWrites' = tokenWrites + 1
    /\ net' = Sent("courses")
    /\ pc' = "courses"
    /\ UNCHANGED <<pipeVars, env, tokenFile0, exitStatus, tokens, flow, flowsRun, exchanged>>
    /\ UNCHANGED <<localVars, deviceVars, courseVars>>

(* fs.writeFile rejects: the file is as it was or holds a partial write *)
SaveTokensFailed ==
    /\ pc = "save"
    /\ tokenFile' \in {tokenFile, GarbageFile}
    /\ Die
    /\ UNCHANGED <<pipeVars, env, tokenFile0, tokenWrites, tokens, flow, flowsRun, exchanged, net>>
    /\ UNCHANGED <<localVars, deviceVars, courseVars>>

(* main, lines 174-213: the course listing; no call is guarded.  main     *)
(* awaits each answer (pc is the call it waits for): the listener's        *)
(* requests are handled meanwhile.  Each action is one answer and main's   *)
(* continuation up to the next call.                                       *)

(* lines 176-188: courses.list answers n courses; courseWork.list of the   *)
(* first one is called, or main returns                                    *)
ListCoursesOk(n) ==
    /\ pc = "courses"
    /\ nCourses' = n
    /\ IF n = 0
       THEN /\ pc' = "done" /\ exitStatus' = exitWhenIdle(conns)
            /\ UNCHANGED <<courseIdx, net>>
       ELSE /\ pc' = "cw" /\ courseIdx' = 1 /\ net' = Sent("coursework")
            /\ UNCHANGED exitStatus
    /\ UNCHANGED <<pipeVars, env, tokenFile0, tokens, flow, flowsRun, exchanged>>
    /\ UNCHANGED <<localVars, deviceVars, fileVars>>

(* line 176 rejects *)
ListCoursesFailed ==
    /\ pc = "courses"
    /\ Die
    /\ UNCHANGED <<pipeVars, env, tokenFile0, tokens, flow, flowsRun, exchanged, net>>
    /\ UNCHANGED <<localVars, deviceVars, fileVars, courseVars>>

(* lines 183-204: courseWork.list answers, announcements.list is called *)
ListCourseWorkOk ==
    /\ pc = "cw"
    /\ net' = Sent("announcements")
    /\ pc' = "ann"
    /\ UNCHANGED <<pipeVars, env, tokenFile0, exitStatus, tokens, flow, flowsRun, exchanged>>
    /\ UNCHANGED <<localVars, deviceVars, fileVars, courseVars>>

(* line 183 rejects *)
ListCourseWorkFailed ==
    /\ pc = "cw"
    /\ Die
    /\ UNCHANGED <<pipeVars, env, tokenFile0, tokens, flow, flowsRun, exchanged, net>>
    /\ UNCHANGED <<localVars, deviceVars, fileVars, courseVars>>

(* lines 200-213, 180-188: announcements.list answers; courseWork.list of  *)
(* the next course is called, or main returns                              *)
ListAnnouncementsOk ==
    /\ pc = "ann"
    /\ IF courseIdx < nCourses
       THEN /\ pc' = "cw" /\ courseIdx' = courseIdx + 1 /\ net' = Sent("coursework")
            /\ UNCHANGED exitStatus
       ELSE /\ pc' = "done" /\ exitStatus' = exitWhenIdle(conns)
            /\ UNCHANGED <<courseIdx, net>>
    /\ UNCHANGED <<pipeVars, env, tokenFile0, tokens, flow, flowsRun, exchanged, nCourses>>
    /\ UNCHANGED <<localVars, deviceVars, fileVars>>

(* line 200 rejects *)
ListAnnouncementsFailed ==
    /\ pc = "ann"
    /\ Die
    /\ UNCHANGED <<pipeVars, env, tokenFile0, tokens, flow, flowsRun, exchanged, net>>
    /\ UNCHANGED <<localVars, deviceVars, fileVars, courseVars>>

NextAuth ==
    \/ ConfigOk
    \/ ConfigMissing
    \/ AdoptStored
    \/ BeginLocal
    \/ OpenBrowser
    \/ Connect
    \/ \E r \in Requests : HandleRequest(r)
    \/ Disconnect
    \/ AwaitCodeResolved
    \/ AwaitCodeRejected
    \/ ExchangeOk
    \/ ExchangeRejected
    \/ ListenError
    \/ BeginDevice
    \/ \E dev \in DeviceResponses, d \in Latencies : DeviceCodeOk(dev, d)
    \/ DeviceCodeRejected
    \/ \E d \in Latencies : DeviceWaitAndPoll(d)
    \/ DeviceTimedOut
    \/ \E r \in PollResponses, d \in Latencies : DevicePollResponse(r, d)
    \/ SaveTokensOk
    \/ SaveTokensFailed
    \/ \E n \in 0..MaxCourses : ListCoursesOk(n)
    \/ ListCoursesFailed
    \/ ListCourseWorkOk
    \/ ListCourseWorkFailed
    \/ ListAnnouncementsOk
    \/ ListAnnouncementsFailed

SpecAuth == InitAuth /\ [][NextAuth]_vars

----------------------------------------------------------------------------
(* Dates.  An instant is a number of minutes since 1970-01-01T00:00Z.      *)
MinutesPerDay == 24 * 60

(* day number of a proleptic Gregorian date, as Date.UTC's MakeDay *)
DaysFromCivil(y, m, d) ==
    LET yy  == IF m <= 2 THEN y - 1 ELSE y
        era == yy \div 400
        yoe == yy - era * 400
        mp  == (m + 9) % 12
        doy == (153 * mp + 2) \div 5 + d - 1
        doe == yoe * 365 + yoe \div 4 - yoe \div 100 + doy
    IN era * 146097 + doe - 719468

(* the Gregorian date <<y, m, d>> of a day number *)
CivilFromDays(z) ==
    LET zz  == z + 719468
        era == zz \div 146097
        doe == zz - era * 146097
        yoe == (doe - doe \div 1460 + doe \div 36524 - doe \div 146096) \div 365
        doy == doe - (365 * yoe + yoe \div 4 - yoe \div 100)
        mp  == (5 * doy + 2) \div 153
        d   == doy - (153 * mp + 2) \div 5 + 1
        m   == IF mp < 10 THEN mp + 3 ELSE mp - 9
        y   == yoe + era * 400
    IN <<IF m <= 2 THEN y + 1 ELSE y, m, d>>

(* Date.UTC(year, monthIndex, day, hour, minute): months and days overflow *)
(* into the next unit, and a year 0..99 means 1900 + year                  *)
DateUTC(year, monthIndex, day, hour, minute) ==
    LET yr == IF year >= 0 /\ year <= 99 THEN 1900 + year ELSE year
        ym == yr + monthIndex \div 12
        mn == monthIndex % 12
    IN (DaysFromCivil(ym, mn + 1, 1) + day - 1) * MinutesPerDay + hour * 60 + minute

(* Date.prototype.toISOString, to the minute: <<y, mo, d, h, mi>> in UTC *)
toISOString(t) ==
    LET c == CivilFromDays(t \div MinutesPerDay)
        r == t % MinutesPerDay
    IN <<c[1], c[2], c[3], r \div 60, r % 60>>

(* Date.parse / new Date(iso) of an ISO-8601 UTC string *)
DateParse(iso) ==
    DaysFromCivil(iso[1], iso[2], iso[3]) * MinutesPerDay + iso[4] * 60 + iso[5]

googleDueToDateMutantAddsOffset(dueDate, dueTime) ==
    IF dueDate = <<>> THEN <<>>
    ELSE LET year   == dueDate[1].year
             month  == dueDate[1].month
             day    == dueDate[1].day
             hour   == IF dueTime = <<>> \/ dueTime[1].hours = <<>>
                       THEN 23 ELSE dueTime[1].hours[1]
             minute == IF dueTime = <<>> \/ dueTime[1].minutes = <<>>
                       THEN 59 ELSE dueTime[1].minutes[1]
         IN <<DateUTC(year, month - 1, day, hour, minute) + TzOffsetMinutes>>

(* googleDueToDate, lines 48-57.  dueDate is <<>> or <<[year, month, day]>>, *)
(* dueTime is <<>> or <<[hours, minutes]>> with optional fields.           *)
googleDueToDate(dueDate, dueTime) ==
    IF dueDate = <<>> THEN <<>>
    ELSE LET year   == dueDate[1].year
             month  == dueDate[1].month
             day    == dueDate[1].day
             hour   == IF dueTime = <<>> \/ dueTime[1].hours = <<>>
                       THEN 23 ELSE dueTime[1].hours[1]
             minute == IF dueTime = <<>> \/ dueTime[1].minutes = <<>>
                       THEN 59 ELSE dueTime[1].minutes[1]
         IN <<DateUTC(year, month - 1, day, hour, minute) - TzOffsetMinutes>>

(* UTC offset of Asia/Seoul at instant t: +09:00, and +10:00 during the    *)
(* daylight-saving periods of 1987 and 1988 (instants from 1962 on)        *)
SeoulOffset(t) ==
    IF \/ /\ t >= DateUTC(1987, 4, 9, 17, 0) /\ t < DateUTC(1987, 9, 10, 17, 0)
       \/ /\ t >= DateUTC(1988, 4, 7, 17, 0) /\ t < DateUTC(1988, 9, 8, 17, 0)
    THEN 600 ELSE 540

(* decimal digits of n, zero-padded to at least w characters *)
RECURSIVE Digits(_, _)
Digits(n, w) ==
    LET ch == <<"0", "1", "2", "3", "4", "5", "6", "7", "8", "9">>[(n % 10) + 1]
    IN IF n < 10 /\ w <= 1 THEN <<ch>>
       ELSE Append(Digits(n \div 10, w - 1), ch)

(* kstDayKey, lines 59-70: the en-CA parts of d in Asia/Seoul, YYYY-MM-DD *)
kstDayKey(d) ==
    LET c == CivilFromDays((d + SeoulOffset(d)) \div MinutesPerDay)
    IN Digits(c[1], 1) \o <<"-">> \o Digits(c[2], 2) \o <<"-">> \o Digits(c[3], 2)

(* kstLabel, lines 72-75 *)
kstLabel(dayKey) == [i \in 1..Len(dayKey) |-> IF dayKey[i] = "-" THEN "." ELSE dayKey[i]]

----------------------------------------------------------------------------
(* Strings are sequences of one-character strings. *)
Ellipsis == "U+2026"
Alphabet == <<"\t", "\n", " ", "-", ".", "0", "1", "2", "3", "4", "5", "6", "7",
              "8", "9", "A", "B", "a", "b", Ellipsis>>
IndexOf(c) == CHOOSE i \in 1..Len(Alphabet) : Alphabet[i] = c

(* lexicographic order of two sequences of weights: -1, 0 or 1 *)
LexCompare(x, y) ==
    LET n    == IF Len(x) < Len(y) THEN Len(x) ELSE Len(y)
        diff == {i \in 1..n : x[i] # y[i]}
        k    == CHOOSE i \in diff : \A j \in diff : i <= j
    IN IF diff # {} THEN (IF x[k] < y[k] THEN -1 ELSE 1)
       ELSE IF Len(x) < Len(y) THEN -1
       ELSE IF Len(x) > Len(y) THEN 1
       ELSE 0

(* UTF-16 code unit order, the order of Array.prototype.sort() without a   *)
(* comparator: Alphabet lists the characters by ascending code unit        *)
CodeUnitLess(x, y) ==
    LexCompare([i \in 1..Len(x) |-> IndexOf(x[i])],
               [i \in 1..Len(y) |-> IndexOf(y[i])]) < 0

(* String.prototype.localeCompare with the default collator: the strings   *)
(* are compared by their primary weights (letters regardless of case) and, *)
(* when equal at that level, by their tertiary weights.  The collator puts *)
(* white space first, then the punctuation, the digits and the letters; a  *)
(* character has one weight, but the ellipsis has the primary weights of   *)
(* three full stops.  At the tertiary level a lower-case letter or a plain *)
(* character comes first, then the full stops of an ellipsis, then an      *)
(* upper-case letter.                                                      *)
Primary(c) ==
    IF c \in {"A", "a"} THEN <<30>>
    ELSE IF c \in {"B", "b"} THEN <<31>>
    ELSE IF c = Ellipsis THEN <<IndexOf("."), IndexOf("."), IndexOf(".")>>
    ELSE <<IndexOf(c)>>
Tertiary(c) ==
    IF c \in {"A", "B"} THEN <<2>>
    ELSE IF c = Ellipsis THEN <<1, 1, 1>>
    ELSE <<0>>

(* the weights of a string: those of its characters, one after the other   *)
(* (the string is split in halves)                                         *)
RECURSIVE primaryWeights(_)
primaryWeights(x) ==
    IF x = <<>> THEN <<>>
    ELSE IF Len(x) = 1 THEN Primary(x[1])
    ELSE primaryWeights(SubSeq(x, 1, Len(x) \div 2))
         \o primaryWeights(SubSeq(x, Len(x) \div 2 + 1, Len(x)))
RECURSIVE tertiaryWeights(_)
tertiaryWeights(x) ==
    IF x = <<>> THEN <<>>
    ELSE IF Len(x) = 1 THEN Tertiary(x[1])
    ELSE tertiaryWeights(SubSeq(x, 1, Len(x) \div 2))
         \o tertiaryWeights(SubSeq(x, Len(x) \div 2 + 1, Len(x)))

localeCompare(x, y) ==
    LET p == LexCompare(primaryWeights(x), primaryWeights(y))
    IN IF p # 0 THEN p
       ELSE LexCompare(tertiaryWeights(x), tertiaryWeights(y))

(* /\s/ *)
IsSpace(c) == c \in {" ", "\t", "\n"}

(* .replace(/\s+/g, ' '): each run of whitespace becomes one space.  The  *)
(* string is split in halves; a run that spans the cut is joined.          *)
RECURSIVE collapse(_)
collapse(s) ==
    IF s = <<>> THEN <<>>
    ELSE IF Len(s) = 1 THEN <<IF IsSpace(s[1]) THEN " " ELSE s[1]>>
    ELSE LET h == Len(s) \div 2
             l == collapse(SubSeq(s, 1, h))
             r == collapse(SubSeq(s, h + 1, Len(s)))
         IN IF l[Len(l)] = " " /\ r[1] = " " THEN l \o Tail(r) ELSE l \o r

(* .trim() *)
RECURSIVE trimStart(_)
trimStart(s) == IF s # <<>> /\ IsSpace(s[1]) THEN trimStart(Tail(s)) ELSE s
RECURSIVE trimEnd(_)
trimEnd(s) ==
    IF s # <<>> /\ IsSpace(s[Len(s)]) THEN trimEnd(SubSeq(s, 1, Len(s) - 1)) ELSE s
trim(s) == trimEnd(trimStart(s))

(* line 139: (a.text || '').replace(/\s+/g, ' ').trim() *)
normalizeText(text) == trim(collapse(IF text = <<>> THEN <<>> ELSE text[1]))

MaxTitleLen == 120
KeepLen == 117

annTitleMutantKeepsLimit(txt) ==
    IF Len(txt) > MaxTitleLen THEN SubSeq(txt, 1, MaxTitleLen) \o <<Ellipsis>> ELSE txt

(* line 150 *)
annTitle(txt) ==
    IF Len(txt) > MaxTitleLen THEN SubSeq(txt, 1, KeepLen) \o <<Ellipsis>> ELSE txt

----------------------------------------------------------------------------
(* The build-data pipeline: main of src/README.md, lines 77-198 *)

(* pushItem, lines 95-100.  A Map is a sequence of entries in insertion    *)
(* order: dayBuckets of [day, byCourse], byCourse of [name, items].        *)
HasKey(m, k, f(_)) == \E i \in 1..Len(m) : f(m[i]) = k
KeyIndex(m, k, f(_)) == CHOOSE i \in 1..Len(m) : f(m[i]) = k
DayOf(e) == e.day
NameOf(e) == e.name

pushItem(b, dayKey, courseName, item) ==
    LET b1  == IF HasKey(b, dayKey, DayOf) THEN b
               ELSE Append(b, [day |-> dayKey, byCourse |-> <<>>])
        i   == KeyIndex(b1, dayKey, DayOf)
        bc  == b1[i].byCourse
        bc1 == IF HasKey(bc, courseName, NameOf) THEN bc
               ELSE Append(bc, [name |-> courseName, items |-> <<>>])
        j   == KeyIndex(bc1, courseName, NameOf)
    IN [b1 EXCEPT ![i].byCourse = [bc1 EXCEPT ![j].items = Append(@, item)]]

(* lines 112-113, 142-143: the anchor instant of a record.  A time field   *)
(* is <<>> (absent) or <<[valid, iso]>>; an unparsable string gives an     *)
(* Invalid Date, on which kstDayKey throws                                 *)
whenIsoOf(r) == IF r.updateTime # <<>> THEN r.updateTime ELSE r.creationTime
whenThrows(r) == whenIsoOf(r) # <<>> /\ ~whenIsoOf(r)[1].valid
whenOfMutantNow(r, t) == t

whenOf(r, t) ==
    IF whenIsoOf(r) = <<>> THEN t ELSE DateParse(whenIsoOf(r)[1].iso)

cwItemMutantCreatedAtCreation(c, w, t) ==
    LET due == googleDueToDate(w.dueDate, w.dueTime)
    IN [id        |-> "cw:" \o c.id \o ":" \o w.id,
        title     |-> w.title,
        link      |-> w.alternateLink,
        dueAt     |-> IF due = <<>> THEN <<>> ELSE <<toISOString(due[1])>>,
        topic     |-> OrElse(w.workType, "COURSEWORK"),
        createdAt |-> IF w.creationTime # <<>> /\ w.creationTime[1].valid
                      THEN toISOString(DateParse(w.creationTime[1].iso))
                      ELSE toISOString(whenOf(w, t))]

cwItemMutantNoCourseInId(c, w, t) ==
    LET due == googleDueToDate(w.dueDate, w.dueTime)
    IN [id        |-> "cw:" \o w.id,
        title     |-> w.title,
        link      |-> w.alternateLink,
        dueAt     |-> IF due = <<>> THEN <<>> ELSE <<toISOString(due[1])>>,
        topic     |-> OrElse(w.workType, "COURSEWORK"),
        createdAt |-> toISOString(whenOf(w, t))]

(* lines 116-124 *)
cwItem(c, w, t) ==
    LET due == googleDueToDate(w.dueDate, w.dueTime)
    IN [id        |-> "cw:" \o c.id \o ":" \o w.id,
        title     |-> w.title,
        link      |-> w.alternateLink,
        dueAt     |-> IF due = <<>> THEN <<>> ELSE <<toISOString(due[1])>>,
        topic     |-> OrElse(w.workType, "COURSEWORK"),
        createdAt |-> toISOString(whenOf(w, t))]

(* lines 148-155 *)
annItem(c, a, t) ==
    [id        |-> "ann:" \o c.id \o ":" \o a.id,
     title     |-> <<annTitle(normalizeText(a.text))>>,
     link      |-> c.alternateLink,
     dueAt     |-> <<>>,
     topic     |-> "ANNOUNCEMENT",
     createdAt |-> toISOString(whenOf(a, t))]

(* lines 111-125: the loop over the coursework of course c at time t; a    *)
(* throw leaves the loop and keeps what was pushed                         *)
RECURSIVE pushWorks(_, _, _, _)
pushWorks(b, c, ws, t) ==
    IF ws = <<>> \/ whenThrows(ws[1]) THEN b
    ELSE pushWorks(pushItem(b, kstDayKey(whenOf(ws[1], t)), c.name, cwItem(c, ws[1], t)),
                   c, Tail(ws), t)

(* lines 138-156 *)
RECURSIVE pushAnns(_, _, _, _)
pushAnns(b, c, as, t) ==
    IF as = <<>> THEN b
    ELSE IF normalizeText(as[1].text) = <<>> THEN pushAnns(b, c, Tail(as), t)
    ELSE IF whenThrows(as[1]) THEN b
    ELSE pushAnns(pushItem(b, kstDayKey(whenOf(as[1], t)), c.name, annItem(c, as[1], t)),
                  c, Tail(as), t)

(* lines 126-128, 157-159: catch { // ignore } *)
onFetchErrorMutantRethrow == "throw"

onFetchError == "ignore"

(* lines 171-177: the comparator of items.sort *)
titleOf(a) == IF a.title = <<>> THEN <<>> ELSE a.title[1]
compareItemsMutantNoTieBreak(a, b) ==
    DateParse(b.createdAt) - DateParse(a.createdAt)

compareItems(a, b) ==
    LET at == DateParse(a.createdAt)
        bt == DateParse(b.createdAt)
    IN IF at # bt THEN bt - at ELSE localeCompare(titleOf(a), titleOf(b))

(* Array.prototype.sort with a comparator is stable *)
RECURSIVE insertItem(_, _)
insertItem(sorted, x) ==
    IF sorted = <<>> THEN <<x>>
    ELSE IF compareItems(sorted[Len(sorted)], x) <= 0 THEN Append(sorted, x)
    ELSE Append(insertItem(SubSeq(sorted, 1, Len(sorted) - 1), x), sorted[Len(sorted)])

RECURSIVE sortItems(_)
sortItems(items) ==
    IF items = <<>> THEN <<>>
    ELSE insertItem(sortItems(SubSeq(items, 1, Len(items) - 1)), items[Len(items)])

insertDayMutantUnsorted(sorted, k) == Append(sorted, k)

(* line 162: Array.from(dayBuckets.keys()).sort() *)
RECURSIVE insertDay(_, _)
insertDay(sorted, k) ==
    IF sorted = <<>> THEN <<k>>
    ELSE IF CodeUnitLess(k, sorted[Len(sorted)])
         THEN Append(insertDay(SubSeq(sorted, 1, Len(sorted) - 1), k), sorted[Len(sorted)])
    ELSE Append(sorted, k)

RECURSIVE sortDays(_)
sortDays(b) ==
    IF b = <<>> THEN <<>>
    ELSE insertDay(sortDays(SubSeq(b, 1, Len(b) - 1)), b[Len(b)].day)

(* lines 168-179: items.sort sorts in place the arrays dayBuckets holds   *)
(* under dayKey                                                            *)
sortBucket(b, dayKey) ==
    [b EXCEPT ![KeyIndex(b, dayKey, DayOf)].byCourse =
        [i \in 1..Len(@) |-> [name |-> @[i].name, items |-> sortItems(@[i].items)]]]

(* lines 168-185: the groups are those arrays, sorted *)
snapshot(b, dayKey, t) ==
    LET byCourse == sortBucket(b, dayKey)[KeyIndex(b, dayKey, DayOf)].byCourse
    IN [generatedAt |-> toISOString(t),
        day         |-> dayKey,
        groups      |-> [i \in 1..Len(byCourse) |->
                            [name  |-> byCourse[i].name,
                             items |-> byCourse[i].items]]]

(* lines 163, 190-194 *)
manifestDoc(ds, t) ==
    [generatedAt |-> toISOString(t),
     latestDay   |-> IF ds = <<>> THEN <<>> ELSE <<ds[Len(ds)]>>,
     days        |-> [i \in 1..Len(ds) |-> [day |-> ds[i], label |-> kstLabel(ds[i])]]]

(* fs.writeFile: the file at path holds content; <<>> is a partial write *)
writeFile(fs, path, content) ==
    {f \in fs : f.path # path} \cup {[path |-> path, content |-> content]}

(* line 187 rejecting: the file is as it was or partly written, and no     *)
(* other file is touched                                                   *)
failedWriteMutantRollback(fs, path) == { {f \in fs : f.path = path} }

failedWrite(fs, path) == {fs, writeFile(fs, path, <<>>)}

----------------------------------------------------------------------------
(* Remote data the pipeline is run against *)
Iso(y, mo, d, h, mi) == <<[valid |-> TRUE, iso |-> <<y, mo, d, h, mi>>]>>
BadTime == <<[valid |-> FALSE, iso |-> <<0, 0, 0, 0, 0>>]>>
Str(n, c) == [i \in 1..n |-> c]

Math  == [id |-> "1", name |-> "Math", alternateLink |-> "https://c/1"]
Art   == [id |-> "2", name |-> "Art",  alternateLink |-> Absent]
Math2 == [id |-> "3", name |-> "Math", alternateLink |-> "https://c/3"]
CourseLists == {<<>>, <<Math>>, <<Math, Art>>, <<Math, Math2>>}

Work(id, title, upd, cre, dd, dt, wt) ==
    [id |-> id, title |-> title, alternateLink |-> "https://w/" \o id,
     workType |-> wt, dueDate |-> dd, dueTime |-> dt,
     updateTime |-> upd, creationTime |-> cre]
W1 == Work("w1", <<Str(1, "B")>>, Iso(2024, 3, 1, 10, 0), Iso(2024, 2, 1, 0, 0),
           <<[year |-> 2024, month |-> 3, day |-> 5]>>, <<>>, "ASSIGNMENT")
W2 == Work("w2", <<Str(1, "a")>>, <<>>, Iso(2024, 3, 1, 10, 0),
           <<[year |-> 2024, month |-> 3, day |-> 1]>>,
           <<[hours |-> <<14>>, minutes |-> <<>>]>>, Absent)
W3 == Work("w3", <<>>, <<>>, <<>>, <<>>, <<>>, Absent)
W4 == Work("w4", <<Str(2, "b")>>, BadTime, <<>>, <<>>, <<>>, Absent)

Ann(id, text, upd, cre) ==
    [id |-> id, text |-> text, updateTime |-> upd, creationTime |-> cre]
A1 == Ann("a1", <<<<"a", " ", "\n", "b", "\t">>>>, Iso(2024, 3, 1, 15, 30), Iso(2024, 3, 1, 9, 0))
A2 == Ann("a2", <<<<" ", "\n">>>>, Iso(2024, 3, 1, 10, 0), <<>>)
A3 == Ann("a3", <<Str(121, "a")>>, <<>>, Iso(2024, 3, 1, 10, 0))
A4 == Ann("a4", <<Str(1, "A")>>, <<>>, <<>>)
A5 == Ann("a5", <<>>, <<>>, <<>>)
A6 == Ann("a6", <<Str(MaxTitleLen, "b")>>, <<>>, Iso(2024, 3, 1, 10, 0))

Failed == [ok |-> FALSE, list |-> <<>>]
Ok(list) == [ok |-> TRUE, list |-> list]
CourseWorkResponses == {Failed, Ok(<<>>), Ok(<<W1, W2>>), Ok(<<W3>>), Ok(<<W2, W4, W1>>)}
AnnouncementResponses == {Failed, Ok(<<A2, A5>>), Ok(<<A1, A2, A3, A6>>), Ok(<<A4>>)}

Remotes ==
    {NoRemote} \cup
    UNION { [listOk : {TRUE}, courses : {cs},
             courseWork : [1..Len(cs) -> CourseWorkResponses],
             announcements : [1..Len(cs) -> AnnouncementResponses]]
            : cs \in CourseLists }

(* the process starts shortly before midnight in Seoul *)
StartClock == DateUTC(2024, 2, 1, 14, 59)

PipeEnvs == {e \in Envs : e.GOOGLE_AUTH_METHOD = Absent /\ e.GOOGLE_CLIENT_SECRET = "secret"}
PipeTokenFiles == {NoFile, GarbageFile, ObjectFile([access_token |-> "at-old",
                                                    refresh_token |-> "rt-old"])}

InitPipe ==
    /\ env \in PipeEnvs
    /\ tokenFile \in PipeTokenFiles
    /\ tokenFile0 = tokenFile
    /\ tokenWrites = 0
    /\ pc = "start"
    /\ exitStatus = <<>>
    /\ tokens = NoTokens
    /\ flow = NoFlow
    /\ flowsRun = 0
    /\ server = "none"
    /\ conns = 0 /\ served = 0 /\ stuck = 0
    /\ codePromise = Pending
    /\ nReq = 0
    /\ lastReq = NoRequest
    /\ lastStatus = NoStatus
    /\ firstCode = NoCode
    /\ sawNoCode = FALSE
    /\ exchanged = <<>>
    /\ net = NoNet
    /\ now = 0
    /\ intervalMs = 0
    /\ expiresAt = 0
    /\ lastPollAt = 0
    /\ lastPoll = "none"
    /\ device = NoDevice
    /\ timer = 0
    /\ nCourses = 0
    /\ courseIdx = 0
    /\ remote \in Remotes
    /\ clock = StartClock
    /\ ticks = 0
    /\ run = 1
    /\ dayBuckets = <<>>
    /\ days = <<>>
    /\ dayIdx = 0
    /\ files = {}
    /\ manifest = <<>>
    /\ files1 = {}
    /\ manifest1 = <<>>
    /\ written = <<>>
    /\ manifestWrites = 0
    /\ attempts = <<>>
    /\ failCause = ""
    /\ dueDateArg = <<>> /\ dueTimeArg = <<>> /\ dueResult = <<>> /\ dueKey = <<>>

(* what the pipeline never touches *)
idleVars == <<tokenFile, tokenFile0, tokenWrites, flow, flowsRun, server, conns, served, stuck,
              codePromise, nReq, lastReq, lastStatus, firstCode, sawNoCode,
              exchanged, now, intervalMs, expiresAt, lastPollAt, lastPoll, device, timer,
              remote, files1, manifest1, run, dateVars>>
memVars == <<dayBuckets, days, dayIdx, attempts>>
diskVars == <<files, manifest, written, manifestWrites>>

(* lines 200-203 *)
Abort(cause) ==
    /\ Die
    /\ failCause' = cause

Continue(next) ==
    /\ pc' = next
    /\ UNCHANGED <<exitStatus, failCause>>

(* lines 78-79 *)
PipeConfigOk ==
    /\ pc = "start"
    /\ mustGetEnv("GOOGLE_CLIENT_ID") /\ mustGetEnv("GOOGLE_CLIENT_SECRET")
    /\ Continue("readToken")
    /\ UNCHANGED <<idleVars, memVars, diskVars, env, tokens, net, nCourses, courseIdx, clock, ticks>>

PipeConfigMissing ==
    /\ pc = "start"
    /\ ~(mustGetEnv("GOOGLE_CLIENT_ID") /\ mustGetEnv("GOOGLE_CLIENT_SECRET"))
    /\ Abort("config")
    /\ UNCHANGED <<idleVars, memVars, diskVars, env, tokens, net, nCourses, courseIdx, clock, ticks>>

(* lines 82-85: the token file is read and parsed unguarded *)
PipeReadToken ==
    /\ pc = "readToken"
    /\ IF tokenFile.kind \in {"absent", "garbage"}
       THEN Abort("token") /\ UNCHANGED tokens
       ELSE Continue("courses") /\ tokens' = readTokens(tokenFile)
    /\ UNCHANGED <<idleVars, memVars, diskVars, env, net, nCourses, courseIdx, clock, ticks>>

(* line 162, reached when the loop over the courses ends *)
EndOfLoop(b) ==
    /\ days' = sortDays(b)
    /\ dayIdx' = 1
    /\ Continue("mkdir")

(* lines 89-90 *)
PipeListCourses ==
    /\ pc = "courses"
    /\ net' = Sent("courses")
    /\ IF ~remote.listOk
       THEN Abort("courses") /\ UNCHANGED <<nCourses, courseIdx, days, dayIdx>>
       ELSE /\ nCourses' = Len(remote.courses)
            /\ IF remote.courses = <<>>
               THEN EndOfLoop(dayBuckets) /\ UNCHANGED courseIdx
               ELSE Continue("cw") /\ courseIdx' = 1 /\ UNCHANGED <<days, dayIdx>>
    /\ UNCHANGED <<idleVars, diskVars, env, tokens, dayBuckets, attempts, clock, ticks>>

(* lines 104-128 *)
FetchCourseWork ==
    /\ pc = "cw"
    /\ net' = Sent("coursework")
    /\ attempts' = Append(attempts, <<courseIdx, "courseWork">>)
    /\ LET r == remote.courseWork[courseIdx] IN
       IF r.ok
       THEN /\ dayBuckets' = pushWorks(dayBuckets, remote.courses[courseIdx], r.list, clock)
            /\ Continue("ann")
       ELSE /\ UNCHANGED dayBuckets
            /\ IF onFetchError = "ignore" THEN Continue("ann") ELSE Abort("courseWork")
    /\ UNCHANGED <<idleVars, diskVars, env, tokens, nCourses, courseIdx, days, dayIdx,
                   clock, ticks>>

(* lines 131-160 *)
FetchAnnouncements ==
    /\ pc = "ann"
    /\ net' = Sent("announcements")
    /\ attempts' = Append(attempts, <<courseIdx, "announcements">>)
    /\ LET r == remote.announcements[courseIdx]
           b == IF r.ok
                THEN pushAnns(dayBuckets, remote.courses[courseIdx], r.list, clock)
                ELSE dayBuckets
       IN /\ dayBuckets' = b
          /\ IF ~r.ok /\ onFetchError # "ignore"
             THEN Abort("announcements") /\ UNCHANGED <<courseIdx, days, dayIdx>>
             ELSE IF courseIdx < nCourses
             THEN Continue("cw") /\ courseIdx' = courseIdx + 1 /\ UNCHANGED <<days, dayIdx>>
             ELSE EndOfLoop(b) /\ UNCHANGED courseIdx
    /\ UNCHANGED <<idleVars, diskVars, env, tokens, nCourses, clock, ticks>>

(* line 165 *)
Mkdir(ok) ==
    /\ pc = "mkdir"
    /\ IF ok
       THEN Continue(IF days = <<>> THEN "manifest" ELSE "day")
       ELSE Abort("mkdir")
    /\ UNCHANGED <<idleVars, memVars, diskVars, env, tokens, net, nCourses, courseIdx, clock, ticks>>

(* lines 167-188: one iteration of the loop over days, the write succeeds *)
WriteDay ==
    /\ pc = "day"
    /\ LET doc == snapshot(dayBuckets, days[dayIdx], clock) IN
        /\ files' = writeFile(files, days[dayIdx], <<doc>>)
        /\ written' = Append(written, [path |-> days[dayIdx], content |-> <<doc>>])
    /\ dayBuckets' = sortBucket(dayBuckets, days[dayIdx])
    /\ dayIdx' = dayIdx + 1
    /\ Continue(IF dayIdx < Len(days) THEN "day" ELSE "manifest")
    /\ UNCHANGED <<idleVars, env, tokens, net, nCourses, courseIdx, days,
                   attempts, manifest, manifestWrites, clock, ticks>>

WriteDayFailedMutantIgnored ==
    /\ pc = "day"
    /\ files' \in failedWrite(files, days[dayIdx])
    /\ dayBuckets' = sortBucket(dayBuckets, days[dayIdx])
    /\ dayIdx' = dayIdx + 1
    /\ Continue(IF dayIdx < Len(days) THEN "day" ELSE "manifest")
    /\ UNCHANGED <<idleVars, env, tokens, net, nCourses, courseIdx, days,
                   attempts, clock, ticks, manifest, written, manifestWrites>>

(* line 187 rejects; the items of the day were sorted before the write *)
WriteDayFailed ==
    /\ pc = "day"
    /\ files' \in failedWrite(files, days[dayIdx])
    /\ dayBuckets' = sortBucket(dayBuckets, days[dayIdx])
    /\ Abort("day")
    /\ UNCHANGED <<idleVars, days, dayIdx, attempts, env, tokens, net, nCourses, courseIdx,
                   clock, ticks, manifest, written, manifestWrites>>

(* lines 190-197 *)
WriteManifest ==
    /\ pc = "manifest"
    /\ manifest' = <<manifestDoc(days, clock)>>
    /\ manifestWrites' = manifestWrites + 1
    /\ pc' = "done"
    /\ exitStatus' = <<0>>
    /\ UNCHANGED <<idleVars, memVars, env, tokens, net, nCourses, courseIdx, clock, ticks,
                   files, written, failCause>>

(* line 195 rejects *)
WriteManifestFailed ==
    /\ pc = "manifest"
    /\ manifest' \in {manifest, <<[partial |-> TRUE]>>}
    /\ Abort("manifest")
    /\ UNCHANGED <<idleVars, memVars, env, tokens, net, nCourses, courseIdx, clock, ticks,
                   files, written, manifestWrites>>

(* a minute passes while the process runs *)
Tick ==
    /\ Running
    /\ ticks < MaxTicks
    /\ clock' = clock + 1
    /\ ticks' = ticks + 1
    /\ UNCHANGED <<authVars, remote, run, dayBuckets, days, dayIdx, files, manifest,
                   files1, manifest1, written, manifestWrites, attempts, failCause,
                   dateVars>>

(* the pipeline is started again against the same remote data; the files   *)
(* of the first run stay on disk                                           *)
SecondRun ==
    /\ run = 1
    /\ pc = "done"
    /\ run' = 2
    /\ files1' = files
    /\ manifest1' = manifest
    /\ ticks' = 0
    /\ UNCHANGED clock
    /\ pc' = "start"
    /\ exitStatus' = <<>>
    /\ tokens' = NoTokens
    /\ net' = NoNet
    /\ nCourses' = 0 /\ courseIdx' = 0
    /\ dayBuckets' = <<>> /\ days' = <<>> /\ dayIdx' = 0 /\ attempts' = <<>>
    /\ written' = <<>> /\ manifestWrites' = 0
    /\ UNCHANGED <<env, tokenFile, tokenFile0, tokenWrites, flow, flowsRun, server,
                   conns, served, stuck, codePromise, nReq, lastReq, lastStatus, firstCode,
                   sawNoCode,
                   exchanged, now, intervalMs, expiresAt, lastPollAt, lastPoll, device, timer,
                   remote, files, manifest, failCause, dateVars>>

NextPipe ==
    \/ PipeConfigOk
    \/ PipeConfigMissing
    \/ PipeReadToken
    \/ PipeListCourses
    \/ FetchCourseWork
    \/ FetchAnnouncements
    \/ \E ok \in BOOLEAN : Mkdir(ok)
    \/ WriteDay
    \/ WriteDayFailed
    \/ WriteManifest
    \/ WriteManifestFailed
    \/ Tick

SpecPipe == InitPipe /\ [][NextPipe]_vars

(* two runs in a row against the same remote data *)
TwiceRemotes ==
    {r \in Remotes : Len(r.courses) = 1}
    \cup {r \in Remotes : /\ r.courses = <<Math, Math2>>
                          /\ r.courseWork[1] \in {Failed, Ok(<<W1, W2>>)}
                          /\ r.announcements[1] = Ok(<<A1, A2, A3, A6>>)}

InitTwice ==
    /\ InitPipe
    /\ remote \in TwiceRemotes

NextTwice ==
    \/ NextPipe
    \/ SecondRun

SpecTwice == InitTwice /\ [][NextTwice]_vars

----------------------------------------------------------------------------
(* Properties of the poller's authorization, checked under SpecAuth *)

HasStoredCredential ==
    /\ tokenFile0.kind = "object"
    /\ \/ tokenFile0.access_token \notin {Absent, ""}
       \/ tokenFile0.refresh_token \notin {Absent, ""}
ConfigPresent ==
    /\ env.GOOGLE_CLIENT_ID \notin {Absent, ""}
    /\ env.GOOGLE_CLIENT_SECRET \notin {Absent, ""}
PastAuthorization == pc \in {"courses", "cw", "ann", "done"}
CourseDataRequests == net.courses + net.coursework + net.announcements
InteractiveRequests == net.device_code + net.token_poll + net.code_exchange
FlowEnded == flow.state \in {"Done", "Failed", "TimedOut"}
FlowFailed == flow.state \in {"Failed", "TimedOut"}

\* C1: when the token store holds a credential with an access token or a
\* refresh token, it is adopted with no interactive flow: the listener is
\* never started, no device-code, token-poll or code-exchange request is
\* sent, and the token file is never written in that run.
C1_AdoptsStoredCredential ==
    HasStoredCredential =>
        /\ server = "none" /\ conns = 0 /\ nReq = 0
        /\ flowsRun = 0 /\ flow = NoFlow
        /\ InteractiveRequests = 0
        /\ tokenWrites = 0 /\ tokenFile = tokenFile0
        /\ PastAuthorization =>
              /\ tokens.access_token = tokenFile0.access_token
              /\ tokens.refresh_token = tokenFile0.refresh_token

C1_Witness ==
    /\ HasStoredCredential
    /\ ~Truthy(tokenFile0.refresh_token)
    /\ pc = "done" /\ net.announcements = 2

\* C2: when no usable stored credential exists, exactly one interactive flow
\* is run, local or device as GOOGLE_AUTH_METHOD selects, and whenever a
\* course-data request has been issued the flow has succeeded and its
\* credential is already in the token file, written exactly once.
C2_OneFlowThenPersist ==
    (~HasStoredCredential /\ ConfigPresent) =>
        /\ flowsRun <= 1
        /\ pc \notin {"start", "readToken"} =>
              /\ flowsRun = 1
              /\ flow.kind = IF env.GOOGLE_AUTH_METHOD \in {"device", "Device"}
                             THEN "device" ELSE "local"
        /\ (PastAuthorization \/ CourseDataRequests > 0) =>
              /\ flow.state = "Done"
              /\ Truthy(tokens.access_token)
              /\ tokenWrites = 1
              /\ tokenFile.kind = "object"
              /\ tokenFile.access_token = tokens.access_token
              /\ tokenFile.refresh_token = tokens.refresh_token

C2_Witness ==
    /\ ~HasStoredCredential
    /\ flow.kind = "device" /\ flow.state = "Done"
    /\ net.courses = 1 /\ net.coursework = 1

\* C3: if the interactive flow ends in failure (code exchange rejected,
\* device-code request rejected, device poll hard error, device timeout,
\* rejected codePromise), the run has ended with exit status 1, the token
\* file is as it was at start, and no course-data request was issued.
C3_FlowFailureAborts ==
    FlowFailed =>
        /\ exitStatus = <<1>> /\ pc = "failed"
        /\ tokenFile = tokenFile0 /\ tokenWrites = 0
        /\ CourseDataRequests = 0

C3_Witness ==
    /\ flow.kind = "local" /\ flow.state = "Failed"
    /\ net.code_exchange = 1

\* C4: the device flow yields a credential exactly when the last poll got a
\* success response; it ends Failed exactly on a poll response whose error
\* is neither authorization_pending nor slow_down (or when the device-code
\* request is rejected, before any poll); and it ends TimedOut only after
\* the expiry, with every poll answered authorization_pending or slow_down,
\* no credential held and nothing persisted.
C4_DeviceOutcome ==
    flow.kind = "device" =>
        /\ flow.state = "Done" <=> lastPoll = "ok"
        /\ flow.state = "Done" => tokens = DeviceTokens
        /\ flow.state # "Done" =>
              tokens = NoTokens /\ tokenWrites = 0 /\ tokenFile = tokenFile0
        /\ lastPoll \notin {"none", "ok", "authorization_pending", "slow_down"}
              => flow.state = "Failed" /\ exitStatus = <<1>>
        /\ flow.state = "Failed" =>
              \/ lastPoll \notin {"none", "ok", "authorization_pending", "slow_down"}
              \/ net.token_poll = 0
        /\ flow.state = "TimedOut" =>
              /\ lastPoll \in {"none", "authorization_pending", "slow_down"}
              /\ now >= expiresAt
              /\ exitStatus = <<1>>
        /\ (exitStatus # <<>> /\ lastPoll \in {"authorization_pending", "slow_down"})
              => flow.state = "TimedOut"

C4_Witness ==
    /\ flow.kind = "device" /\ flow.state = "Done"
    /\ net.token_poll = 2 /\ lastPollAt = 10000
    /\ tokenFile = ObjectFile(DeviceTokens)

\* C5: every request is answered by this rule: a path other than
\* /oauth2callback gets 404, the callback path without a code gets 400, the
\* callback path with a code gets 200; and codePromise is resolved only by
\* a request answered 200, with that request's code.  A request whose target
\* does not parse has no callback path and no code: it is due a 404.
C5_ListenerRule ==
    [][nReq' # nReq =>
        /\ lastStatus' = IF ~CallbackWithCode(lastReq') /\ ~CallbackWithoutCode(lastReq')
                         THEN <<404>>
                         ELSE IF CallbackWithoutCode(lastReq') THEN <<400>>
                         ELSE <<200>>
        /\ (codePromise.state # "resolved" /\ codePromise'.state = "resolved") =>
              /\ lastStatus' = <<200>>
              /\ lastReq'.pathname = "/oauth2callback"
              /\ codePromise'.code = lastReq'.code
              /\ lastReq'.code \in Codes
        /\ lastStatus' # <<200>> => codePromise'.code = codePromise.code
      ]_vars

\* C6: once a callback request without a code has been handled, the flow
\* is Failed, the listener no longer waits and no credential is obtained.
C6_NoCodeFailsFlow ==
    sawNoCode =>
        /\ flow.state = "Failed"
        /\ server # "listening"
        /\ tokens = NoTokens

\* C7: exactly one callback is accepted: the code passed to the token
\* exchange is the code of the first callback request that carried one, the
\* exchange is performed at most once, and a later callback changes neither
\* the code nor the credential.
C7_FirstCallbackWins ==
    /\ Len(exchanged) <= 1 /\ net.code_exchange = Len(exchanged)
    /\ codePromise.state = "resolved" => codePromise.code = firstCode
    /\ Len(exchanged) = 1 => exchanged[1] = firstCode
    /\ (flow.kind = "local" /\ flow.state = "Done") =>
          /\ firstCode \in Codes
          /\ tokens = TokensForCode(firstCode)
          /\ PastAuthorization => tokenFile = ObjectFile(TokensForCode(firstCode))

C7_Witness ==
    /\ flow.kind = "local" /\ flow.state = "Done"
    /\ CallbackWithCode(lastReq) /\ lastReq.code # firstCode
    /\ lastStatus = <<200>>
    /\ pc = "done"

----------------------------------------------------------------------------
(* Properties of the pipeline, checked under SpecPipe and SpecTwice *)

Range(q) == {q[i] : i \in 1..Len(q)}
ItemsOf(doc) == UNION {Range(doc.groups[g].items) : g \in 1..Len(doc.groups)}
FileIds == UNION {{it.id : it \in ItemsOf(f.content[1])} : f \in {g \in files : g.content # <<>>}}
BucketIds ==
    UNION {UNION {{it.id : it \in Range(dayBuckets[i].byCourse[j].items)}
                  : j \in 1..Len(dayBuckets[i].byCourse)} : i \in 1..Len(dayBuckets)}
NonBlank(a) == a.text # <<>> /\ \E i \in 1..Len(a.text[1]) : a.text[1][i] \notin {" ", "\t", "\n"}
HasTime(r) == r.updateTime # <<>> \/ r.creationTime # <<>>
BadAnchor(r) == IF r.updateTime # <<>> THEN ~r.updateTime[1].valid
                ELSE r.creationTime # <<>> /\ ~r.creationTime[1].valid

(* the ids a successful response of course c must contribute: its records, *)
(* blank announcements left out, up to the first one whose time is unusable *)
ExpectedAnnIds(c) ==
    LET l == remote.announcements[c].list
    IN {"ann:" \o remote.courses[c].id \o ":" \o l[i].id :
            i \in {k \in 1..Len(l) : /\ NonBlank(l[k])
                                     /\ \A j \in 1..k : NonBlank(l[j]) => ~BadAnchor(l[j])}}
ExpectedWorkIds(c) ==
    LET l == remote.courseWork[c].list
    IN {"cw:" \o remote.courses[c].id \o ":" \o l[i].id :
            i \in {k \in 1..Len(l) : \A j \in 1..k : ~BadAnchor(l[j])}}
Fetched(c, kind) == <<c, kind>> \in Range(attempts)
LoopEnded == pc \in {"mkdir", "day", "manifest", "done"}
             \/ failCause \in {"mkdir", "day", "manifest"}

\* C8: a failed coursework or announcements fetch is absorbed: the run does
\* not fail because of it, every course still gets both of its fetches in
\* order, a successful fetch contributes its items to the buckets whatever
\* happened to the other kind or to earlier courses, and a run that ends
\* has exit status 0 with those items in the day files.
C8_FetchFailureAbsorbed ==
    /\ failCause \notin {"courseWork", "announcements"}
    /\ LoopEnded =>
          attempts = [k \in 1..(2 * Len(remote.courses)) |->
                         <<(k + 1) \div 2,
                           IF k % 2 = 1 THEN "courseWork" ELSE "announcements">>]
    /\ \A c \in 1..Len(remote.courses) :
          /\ (Fetched(c, "courseWork") /\ remote.courseWork[c].ok)
                => ExpectedWorkIds(c) \subseteq BucketIds
          /\ (Fetched(c, "announcements") /\ remote.announcements[c].ok)
                => ExpectedAnnIds(c) \subseteq BucketIds
    /\ pc = "done" =>
          /\ exitStatus = <<0>>
          /\ \A c \in 1..Len(remote.courses) :
                /\ remote.courseWork[c].ok => ExpectedWorkIds(c) \subseteq FileIds
                /\ remote.announcements[c].ok => ExpectedAnnIds(c) \subseteq FileIds

C8_Witness ==
    /\ pc = "done" /\ exitStatus = <<0>>
    /\ Len(remote.courses) = 2
    /\ ~remote.courseWork[1].ok /\ remote.announcements[1].ok
    /\ ~remote.announcements[2].ok /\ remote.courseWork[2].ok
    /\ "ann:1:a1" \in FileIds
    /\ "cw:2:w1" \in FileIds

(* a document without its generatedAt *)
StripDay(f) == [path |-> f.path, day |-> f.content[1].day, groups |-> f.content[1].groups]
StripManifest(m) == [latestDay |-> m[1].latestDay, days |-> m[1].days]
SameDocuments ==
    /\ {StripDay(f) : f \in files} = {StripDay(f) : f \in files1}
    /\ StripManifest(manifest) = StripManifest(manifest1)
BothRunsDone == run = 2 /\ pc = "done"
EveryItemTimed ==
    \A c \in 1..Len(remote.courses) :
        /\ \A w \in Range(remote.courseWork[c].list) : HasTime(w)
        /\ \A a \in Range(remote.announcements[c].list) : NonBlank(a) => HasTime(a)

\* C9 as stated: two runs against identical remote data leave identical
\* Snapshot and Manifest documents but for generatedAt, whatever the remote
\* data, records without updateTime and creationTime included.
C9_Idempotent == BothRunsDone => SameDocuments

\* C9 amended: two runs against identical remote data in which every
\* coursework record and every announcement with non-empty normalized text
\* carries an updateTime or a creationTime leave identical Snapshot and
\* Manifest documents but for generatedAt.
C9_IdempotentWhenTimed == (BothRunsDone /\ EveryItemTimed) => SameDocuments

C9_Witness ==
    /\ BothRunsDone /\ EveryItemTimed
    /\ Cardinality(files) = 2
    /\ manifest[1].generatedAt # manifest1[1].generatedAt

\* C10: when writing a day file fails, the run ends with exit status 1 and
\* every day file written earlier in the run still holds the document this
\* run wrote.
C10_DayWriteFailureSurfaced ==
    failCause = "day" =>
        /\ exitStatus = <<1>> /\ pc = "failed"
        /\ \A k \in 1..Len(written) :
              [path |-> written[k].path, content |-> written[k].content] \in files

C10_Witness ==
    /\ failCause = "day"
    /\ Len(written) = 1 /\ Len(days) = 2
    /\ \E f \in files : f.path = days[2] /\ f.content = <<>>

----------------------------------------------------------------------------
(* The local flow has got its code or has met an error *)
LocalFlowSettled ==
    /\ flow.kind = "local"
    /\ \/ codePromise.state # "pending"
       \/ flow.state \in {"Exchanging", "Done", "Failed"}

\* C11: in the local loopback flow, once a code has been obtained or an
\* error has occurred (an exception while a request is handled, a failed
\* token exchange), the listener is no longer listening.
C11_ListenerStopped == LocalFlowSettled => server # "listening"

----------------------------------------------------------------------------
(* The device flow under the scheduling the polling loop relies on: the    *)
(* timer of line 121 fires, the token endpoint answers every poll (line    *)
(* 123), and the loop's guard is evaluated again (line 120).               *)
FairDevice ==
    /\ WF_vars(\E d \in Latencies : DeviceWaitAndPoll(d))
    /\ WF_vars(\E r \in PollResponses, d \in Latencies : DevicePollResponse(r, d))
    /\ WF_vars(DeviceTimedOut)

SpecDevice == InitAuth /\ [][NextAuth]_vars /\ FairDevice

DevicePolling == flow.kind = "device" /\ flow.state = "Polling"
DeviceEnded == flow.kind = "device" /\ flow.state \in {"Done", "Failed", "TimedOut"}

(* the server-specified interval and expiry, in ms (defaults 5 s and 600 s) *)
ServerIntervalMs == NumOr(device.interval, DefaultInterval) * 1000
ServerExpiryMs == NumOr(device.expires_in, DefaultExpiresIn) * 1000

(* polls <= expiry / interval + 1, without the division *)
PollsBounded == (net.token_poll - 1) * ServerIntervalMs <= ServerExpiryMs

\* C12: the device polling loop terminates: when every poll is answered and
\* time advances, a flow that is polling eventually is Done, Failed or
\* TimedOut, and the number of polls never exceeds the expiry divided by the
\* poll interval, plus one.
C12_PollingTerminates ==
    /\ [](flow.kind = "device" => PollsBounded)
    /\ (DevicePolling ~> DeviceEnded)

C12_Witness ==
    /\ flow.kind = "device" /\ flow.state = "TimedOut"
    /\ net.token_poll = 3
    /\ net.token_poll * ServerIntervalMs > ServerExpiryMs

\* C13: in the device flow every poll of the token endpoint is sent at a time
\* strictly before the expiry instant, so that once the expiry has elapsed
\* no poll is sent and the flow cannot end Done.
C13_PollsBeforeExpiry ==
    (flow.kind = "device" /\ net.token_poll > 0) => lastPollAt < expiresAt

PollSent == net'.token_poll = net.token_poll + 1
RetryAnswered ==
    /\ pc = "device_poll" /\ pc' # pc
    /\ lastPoll' \in {"authorization_pending", "slow_down"}

\* C14: in the device flow the wait before every poll, the first included,
\* is exactly the server-specified interval (5 s when the server gives
\* none); the interval never changes during the flow, not even after
\* slow_down; and an authorization_pending or slow_down answer sends the flow
\* back to the loop for another poll instead of failing it.
C14_SameIntervalEveryPoll ==
    [][ /\ PollSent =>
             /\ timer' = ServerIntervalMs
             /\ lastPollAt' >= now + ServerIntervalMs
        /\ pc \in {"device_loop", "device_poll"} => intervalMs' = intervalMs
        /\ RetryAnswered =>
             /\ pc' = "device_loop" /\ exitStatus' = <<>>
             /\ flow' = flow /\ flow.state = "Polling"
      ]_vars

C14_Witness ==
    /\ flow.kind = "device" /\ pc = "device_poll"
    /\ device.interval = <<>> /\ timer = 5000
    /\ lastPoll = "slow_down"
    /\ net.token_poll = 2 /\ lastPollAt = 10000

----------------------------------------------------------------------------
(* every item held in dayBuckets, with the day and the course it is under *)
BucketEntries ==
    UNION {UNION {{[day |-> dayBuckets[i].day, name |-> dayBuckets[i].byCourse[j].name,
                    item |-> it] : it \in Range(dayBuckets[i].byCourse[j].items)}
                  : j \in 1..Len(dayBuckets[i].byCourse)} : i \in 1..Len(dayBuckets)}
BucketItems == {e.item : e \in BucketEntries}
BlankAnnIds ==
    UNION {{"ann:" \o remote.courses[c].id \o ":" \o remote.announcements[c].list[k].id :
               k \in {n \in 1..Len(remote.announcements[c].list) :
                         ~NonBlank(remote.announcements[c].list[n])}}
           : c \in 1..Len(remote.courses)}

\* C15: every item placed in a bucket, coursework or announcement, has a
\* non-empty title, and an announcement whose text is empty after collapsing
\* whitespace and trimming never becomes an item.
C15_TitlesNonEmpty ==
    /\ \A it \in BucketItems : it.title # <<>> /\ it.title[1] # <<>>
    /\ BucketIds \cap BlankAnnIds = {}

(* the title the claim gives to an announcement of normalized text t *)
TitleRule(title, t) ==
    IF Len(t) <= 120 THEN title = t
    ELSE /\ Len(title) = 118
         /\ \A i \in 1..117 : title[i] = t[i]
         /\ title[118] = Ellipsis

(* the announcements of course c that become items: index in the response *)
KeptAnns(c) ==
    LET l == remote.announcements[c].list
    IN {k \in 1..Len(l) : /\ NonBlank(l[k])
                          /\ \A j \in 1..k : NonBlank(l[j]) => ~BadAnchor(l[j])}

\* C16: an announcement of normalized text t gives an item whose title is t
\* when t has at most 120 characters and otherwise the first 117 characters
\* of t followed by one ellipsis marker; no announcement title is longer
\* than 120 characters.
C16_AnnouncementTitle ==
    /\ \A it \in BucketItems :
          it.topic = "ANNOUNCEMENT" => Len(it.title[1]) <= 120
    /\ \A c \in 1..Len(remote.courses) :
          (Fetched(c, "announcements") /\ remote.announcements[c].ok) =>
             \A k \in KeptAnns(c) :
                LET a == remote.announcements[c].list[k]
                IN \E it \in BucketItems :
                      /\ it.id = "ann:" \o remote.courses[c].id \o ":" \o a.id
                      /\ it.topic = "ANNOUNCEMENT"
                      /\ TitleRule(it.title[1], normalizeText(a.text))

C16_Witness ==
    /\ \E it \in BucketItems :
          /\ it.id = "ann:1:a3" /\ Len(it.title[1]) = 118
          /\ it.title[1][117] = "a" /\ it.title[1][118] = Ellipsis
    /\ \E it \in BucketItems : it.id = "ann:1:a6" /\ Len(it.title[1]) = 120
    /\ \E it \in BucketItems : it.id = "ann:1:a1" /\ it.title[1] = <<"a", " ", "b">>

(* the places of dayBuckets that hold an item: <<day, course, index>> *)
ItemPlaces ==
    UNION {UNION {{<<i, j, k>> : k \in 1..Len(dayBuckets[i].byCourse[j].items)}
                  : j \in 1..Len(dayBuckets[i].byCourse)} : i \in 1..Len(dayBuckets)}
ItemAt(p) == dayBuckets[p[1]].byCourse[p[2]].items[p[3]]

\* C17: within one run no two items, across all day buckets, courses and
\* both kinds, have the same id; the ids are cw:{courseId}:{nativeId} and
\* ann:{courseId}:{nativeId}.
C17_UniqueIds ==
    /\ \A p, q \in ItemPlaces : p # q => ItemAt(p).id # ItemAt(q).id
    /\ \A c \in 1..Len(remote.courses) :
          /\ (Fetched(c, "courseWork") /\ remote.courseWork[c].ok)
                => ExpectedWorkIds(c) \subseteq BucketIds
          /\ (Fetched(c, "announcements") /\ remote.announcements[c].ok)
                => ExpectedAnnIds(c) \subseteq BucketIds

C17_Witness ==
    /\ LoopEnded
    /\ {"cw:1:w1", "cw:2:w1", "cw:1:w2", "cw:2:w2", "ann:1:a1", "ann:2:a1"}
          \subseteq BucketIds
    /\ Cardinality(ItemPlaces) = 10

WrittenDocs == {f.content[1] : f \in {g \in files : g.content # <<>>}}

\* C18: after any sequence of insertions every item stored under day key k
\* has a createdAt whose day key in Asia/Seoul is k, every day bucket has at
\* least one course entry and every course entry at least one item, in
\* dayBuckets and in every snapshot written.
C18_BucketInvariant ==
    /\ \A e \in BucketEntries : kstDayKey(DateParse(e.item.createdAt)) = e.day
    /\ \A i \in 1..Len(dayBuckets) :
          /\ dayBuckets[i].byCourse # <<>>
          /\ \A j \in 1..Len(dayBuckets[i].byCourse) :
                dayBuckets[i].byCourse[j].items # <<>>
    /\ \A doc \in WrittenDocs :
          /\ doc.groups # <<>>
          /\ \A g \in 1..Len(doc.groups) :
                /\ doc.groups[g].items # <<>>
                /\ \A it \in Range(doc.groups[g].items) :
                      kstDayKey(DateParse(it.createdAt)) = doc.day

C18_Witness ==
    /\ pc = "done"
    /\ Len(dayBuckets) = 2 /\ Cardinality(WrittenDocs) = 2
    /\ \E i \in 1..2 : Len(dayBuckets[i].byCourse) = 2
    /\ \E e \in BucketEntries : e.item.id = "cw:1:w1"

(* the items dayBuckets holds for snapshot group g of doc *)
FetchedItems(doc, g) == dayBuckets[KeyIndex(dayBuckets, doc.day, DayOf)].byCourse[g].items

(* the ids of the records in the order the run fetches them: course by     *)
(* course, the coursework of a course before its announcements, each list  *)
(* in the order of the response                                            *)
RecordIds(c) ==
    [k \in 1..Len(remote.courseWork[c].list) |->
        "cw:" \o remote.courses[c].id \o ":" \o remote.courseWork[c].list[k].id]
    \o [k \in 1..Len(remote.announcements[c].list) |->
        "ann:" \o remote.courses[c].id \o ":" \o remote.announcements[c].list[k].id]
RECURSIVE FetchOrderUpTo(_)
FetchOrderUpTo(c) == IF c = 0 THEN <<>> ELSE FetchOrderUpTo(c - 1) \o RecordIds(c)
FetchOrder == FetchOrderUpTo(Len(remote.courses))
FetchPlace(id) == CHOOSE k \in 1..Len(FetchOrder) : FetchOrder[k] = id
Anchor(it) == DateParse(it.createdAt)
TitleOrder(x, y) == localeCompare(titleOf(x), titleOf(y))

(* x precedes y by the comparator alone *)
Precedes(x, y) ==
    \/ Anchor(x) > Anchor(y)
    \/ Anchor(x) = Anchor(y) /\ TitleOrder(x, y) < 0
SameKeys(x, y) == Anchor(x) = Anchor(y) /\ TitleOrder(x, y) = 0

(* the groups of doc hold the items of the day's bucket, nothing more or  *)
(* less, each of them fetched                                              *)
SamePlaces(doc) ==
    /\ Len(doc.groups) = Len(dayBuckets[KeyIndex(dayBuckets, doc.day, DayOf)].byCourse)
    /\ \A g \in 1..Len(doc.groups) :
          /\ Len(doc.groups[g].items) = Len(FetchedItems(doc, g))
          /\ Range(doc.groups[g].items) = Range(FetchedItems(doc, g))
          /\ \A it \in Range(doc.groups[g].items) : it.id \in Range(FetchOrder)

\* C19 as claimed: in every emitted snapshot the items of a group are
\* ordered by anchor descending and, for equal anchors, by title ascending,
\* and this comparator alone fixes the emitted order, whatever the order in
\* which the items were fetched.
C19_ComparatorFixesOrder ==
    \A doc \in WrittenDocs : \A g \in 1..Len(doc.groups) :
        LET out == doc.groups[g].items
        IN \A i, j \in 1..Len(out) : i < j => Precedes(out[i], out[j])

\* C19 as amended: the items of a group are ordered by anchor descending
\* and, for equal anchors, by title ascending in the order of localeCompare;
\* items equal in anchor and title are emitted in the order in which they
\* were fetched.
C19_SortedAndStable ==
    \A doc \in WrittenDocs :
        /\ SamePlaces(doc)
        /\ \A g \in 1..Len(doc.groups) :
             LET out == doc.groups[g].items
             IN \A i, j \in 1..Len(out) : i < j =>
                   \/ Precedes(out[i], out[j])
                   \/ /\ SameKeys(out[i], out[j])
                      /\ FetchPlace(out[i].id) < FetchPlace(out[j].id)

C19_Witness ==
    /\ pc = "done"
    /\ \E doc \in WrittenDocs : \E g \in 1..Len(doc.groups) :
          LET out == doc.groups[g].items
          IN /\ Len(out) >= 5
             /\ out[1].id = "ann:1:a4" /\ out[2].id = "cw:1:w2"
             /\ out[3].id = "cw:3:w2" /\ out[4].id = "cw:1:w1"
             /\ FetchPlace("cw:1:w1") = 1 /\ FetchPlace("cw:1:w2") = 2
             /\ FetchPlace("ann:1:a4") = 3
             /\ FetchedItems(doc, g) = out

(* the day keys observed in the run: those of the items' anchors *)
ObservedDays == {kstDayKey(Anchor(it)) : it \in BucketItems}
ManifestWritten == manifestWrites = 1 /\ pc = "done"
ManifestDays == [i \in 1..Len(manifest[1].days) |-> manifest[1].days[i].day]

\* C20: the Manifest's days are exactly the distinct day keys observed in
\* the run, in ascending lexicographic order without duplicates, and
\* latestDay is the greatest of them, or null when no item was observed.
C20_ManifestDays ==
    ManifestWritten =>
        /\ Range(ManifestDays) = ObservedDays
        /\ \A i, j \in 1..Len(ManifestDays) :
              i < j => CodeUnitLess(ManifestDays[i], ManifestDays[j])
        /\ IF ObservedDays = {} THEN manifest[1].latestDay = <<>>
           ELSE /\ manifest[1].latestDay # <<>>
                /\ manifest[1].latestDay[1] \in ObservedDays
                /\ \A d \in ObservedDays :
                      d = manifest[1].latestDay[1]
                      \/ CodeUnitLess(d, manifest[1].latestDay[1])

C20_Witness ==
    /\ ManifestWritten
    /\ Cardinality(ObservedDays) = 2
    /\ dayBuckets[1].day = <<"2", "0", "2", "4", "-", "0", "3", "-", "0", "2">>
    /\ ManifestDays[1] = <<"2", "0", "2", "4", "-", "0", "3", "-", "0", "1">>
    /\ manifest[1].latestDay = <<dayBuckets[1].day>>

----------------------------------------------------------------------------
(* The date conversions on their own: googleDueToDate (lines 48-57) is     *)
(* called on a due date and a due time, kstDayKey (lines 59-70) on the     *)
(* Date it returns.                                                        *)
IsLeap(y) == (y % 4 = 0 /\ y % 100 # 0) \/ y % 400 = 0
DaysInMonth(y, m) ==
    IF m = 2 THEN (IF IsLeap(y) THEN 29 ELSE 28)
    ELSE IF m \in {4, 6, 9, 11} THEN 30 ELSE 31

DueYears == {1962, 1987, 1988, 2023, 2024, 2100}
DueDates ==
    {<<>>} \cup
    UNION {UNION {{<<[year |-> y, month |-> m, day |-> d]>> : d \in 1..DaysInMonth(y, m)}
                  : m \in 1..12} : y \in DueYears}
DueTimes ==
    {<<>>} \cup {<<[hours |-> h, minutes |-> mi]>> :
                     h \in Opt({0, 9, 22, 23}), mi \in Opt({0, 30, 59})}

InitDates ==
    /\ env = [GOOGLE_CLIENT_ID |-> "id", GOOGLE_CLIENT_SECRET |-> "secret",
              GOOGLE_AUTH_METHOD |-> Absent]
    /\ tokenFile = NoFile
    /\ tokenFile0 = tokenFile
    /\ tokenWrites = 0
    /\ pc = "start"
    /\ exitStatus = <<>>
    /\ tokens = NoTokens
    /\ flow = NoFlow
    /\ flowsRun = 0
    /\ server = "none"
    /\ conns = 0 /\ served = 0 /\ stuck = 0
    /\ codePromise = Pending
    /\ nReq = 0
    /\ lastReq = NoRequest
    /\ lastStatus = NoStatus
    /\ firstCode = NoCode
    /\ sawNoCode = FALSE
    /\ exchanged = <<>>
    /\ net = NoNet
    /\ now = 0
    /\ intervalMs = 0
    /\ expiresAt = 0
    /\ lastPollAt = 0
    /\ lastPoll = "none"
    /\ device = NoDevice
    /\ timer = 0
    /\ nCourses = 0
    /\ courseIdx = 0
    /\ remote = NoRemote
    /\ clock = StartClock
    /\ ticks = 0
    /\ run = 1
    /\ dayBuckets = <<>>
    /\ days = <<>>
    /\ dayIdx = 0
    /\ files = {}
    /\ manifest = <<>>
    /\ files1 = {}
    /\ manifest1 = <<>>
    /\ written = <<>>
    /\ manifestWrites = 0
    /\ attempts = <<>>
    /\ failCause = ""
    /\ dueDateArg \in DueDates
    /\ dueTimeArg \in DueTimes
    /\ dueResult = <<>>
    /\ dueKey = <<>>

(* every variable the two conversions leave alone *)
restVars == <<env, tokenFile, tokenFile0, tokenWrites, exitStatus, tokens, flow,
              flowsRun, localVars, exchanged, net, deviceVars, courseVars, remote,
              clock, ticks, run, memVars, diskVars, files1, manifest1, failCause>>

(* lines 48-57: const due = googleDueToDate(w.dueDate, w.dueTime) *)
CallGoogleDueToDate ==
    /\ pc = "start"
    /\ dueResult' = googleDueToDate(dueDateArg, dueTimeArg)
    /\ pc' = "due"
    /\ UNCHANGED <<restVars, dueDateArg, dueTimeArg, dueKey>>

(* lines 59-70: kstDayKey of the Date returned; null has no day key *)
CallKstDayKey ==
    /\ pc = "due"
    /\ dueResult # <<>>
    /\ dueKey' = <<kstDayKey(dueResult[1])>>
    /\ pc' = "key"
    /\ UNCHANGED <<restVars, dueDateArg, dueTimeArg, dueResult>>

NextDates ==
    \/ CallGoogleDueToDate
    \/ CallKstDayKey

SpecDates == InitDates /\ [][NextDates]_vars

(* the day key YYYY-MM-DD of a calendar date, and the date of the next day *)
KeyOfDate(y, m, d) == Digits(y, 4) \o <<"-">> \o Digits(m, 2) \o <<"-">> \o Digits(d, 2)
KeyOfDue == KeyOfDate(dueDateArg[1].year, dueDateArg[1].month, dueDateArg[1].day)
KeyOfDayAfterDue ==
    LET y == dueDateArg[1].year
        m == dueDateArg[1].month
        d == dueDateArg[1].day
    IN IF d < DaysInMonth(y, m) THEN KeyOfDate(y, m, d + 1)
       ELSE IF m < 12 THEN KeyOfDate(y, m + 1, 1)
       ELSE KeyOfDate(y + 1, 1, 1)

(* the hour googleDueToDate is asked for: 23 when none is given *)
HourAsked ==
    IF dueTimeArg = <<>> \/ dueTimeArg[1].hours = <<>> THEN 23 ELSE dueTimeArg[1].hours[1]

(* the dates of Seoul's daylight-saving periods: 1987-05-10 to 1987-10-10   *)
(* and 1988-05-08 to 1988-10-08, as <<month, day>> within the year          *)
MonthDayIn(m, d, from, to) ==
    /\ (m > from[1] \/ (m = from[1] /\ d >= from[2]))
    /\ (m < to[1] \/ (m = to[1] /\ d <= to[2]))
InSeoulSummerTime ==
    LET y == dueDateArg[1].year
        m == dueDateArg[1].month
        d == dueDateArg[1].day
    IN \/ y = 1987 /\ MonthDayIn(m, d, <<5, 10>>, <<10, 10>>)
       \/ y = 1988 /\ MonthDayIn(m, d, <<5, 8>>, <<10, 8>>)

\* C21 as claimed: for every valid calendar date, with the time absent
\* (23:59) or given, the day key of the instant googleDueToDate returns is
\* the original date, and an absent date gives no instant.
C21_RoundTrip ==
    /\ (pc = "due" /\ dueDateArg = <<>>) => dueResult = <<>>
    /\ pc = "key" => dueKey = <<KeyOfDue>>

\* C21 as amended: for every valid calendar date from 1962 on the day key
\* is the original date, except for the hour 23 (the default 23:59
\* included) of the dates within Seoul's daylight-saving periods of 1987 and
\* 1988, where it is the date of the next day; an absent date gives no
\* instant.
C21_RoundTripButSummerTime ==
    /\ (pc = "due" /\ dueDateArg = <<>>) => dueResult = <<>>
    /\ (pc = "due" /\ dueDateArg # <<>>) => dueResult # <<>>
    /\ pc = "key" =>
          dueKey = <<IF InSeoulSummerTime /\ HourAsked = 23
                     THEN KeyOfDayAfterDue ELSE KeyOfDue>>

C21_Witness ==
    /\ pc = "key"
    /\ dueDateArg = <<[year |-> 2024, month |-> 3, day |-> 1]>>
    /\ dueTimeArg = <<>>
    /\ toISOString(dueResult[1]) = <<2024, 3, 1, 14, 59>>
    /\ dueKey = <<<<"2", "0", "2", "4", "-", "0", "3", "-", "0", "1">>>>

----------------------------------------------------------------------------
(* the manifest the run found on disk when it started *)
PreviousManifest == IF run = 2 THEN manifest1 ELSE <<>>
AllDaysWritten ==
    /\ Len(written) = Len(days)
    /\ \A k \in 1..Len(days) :
          /\ written[k].path = days[k]
          /\ written[k].content # <<>>
          /\ [path |-> days[k], content |-> written[k].content] \in files

\* C22: the Manifest is written at most once per run and only after the
\* snapshot file of every observed day has been written; when this run's
\* Manifest exists every day it lists has a snapshot file written by this
\* run, and a run that fails before or during the day writes leaves the
\* previous Manifest as it was.
C22_ManifestAfterDays ==
    /\ manifestWrites <= 1
    /\ (manifestWrites = 1 \/ manifest # PreviousManifest) =>
          /\ AllDaysWritten
          /\ pc \in {"done", "failed"}
    /\ manifestWrites = 1 =>
          /\ pc = "done"
          /\ [i \in 1..Len(manifest[1].days) |-> manifest[1].days[i].day] = days
    /\ (pc = "failed" /\ failCause # "manifest") =>
          manifest = PreviousManifest /\ manifestWrites = 0
    /\ pc \notin {"done", "failed"} => manifest = PreviousManifest

C22_Witness ==
    /\ run = 2 /\ pc = "failed" /\ failCause = "day"
    /\ Len(days) = 2 /\ Len(written) = 1
    /\ manifest = manifest1 /\ manifest1 # <<>>
    /\ Len(manifest1[1].days) = 2

====
